---- MODULE Spec2Model ----
(***************************************************************************)
(* Balance resolution of a wallet account (Account::balance,               *)
(* Account::addresses_balance, Account::balance_inner, Account::finish),   *)
(* the two unlock helpers of wallet/operations/helpers/time.rs and the     *)
(* TimelockUnlockCondition type.                                           *)
(***************************************************************************)
EXTENDS Integers, Sequences, FiniteSets, TLC

----------------------------------------------------------------------------
\* Bounds of the model.

\* largest slot index (ledger time, timelock slot, expiration slot)
MaxSlot == 2
\* largest min_committable_age protocol parameter
MaxAge == 1
\* largest amount of one native token held by one output
MaxTokenAmount == 1
\* largest amount of a storage deposit return condition
MaxReturnAmount == 1

----------------------------------------------------------------------------
\* The snapshot domain: addresses, outputs, unlock conditions.

\* the output ids of the account's address lists and reserved set
OutputIds == {1, 2}

\* addresses of the account, and one address that is not of the account
AccountAddresses == {"A1", "A2"}
ForeignAddress == "X"

\* the token ids
TokenIds == {"T1"}

NoTokens == [t \in TokenIds |-> 0]

\* The owning address of an output id: one OutputId has exactly one owner.
OwnerOf(id) == IF id % 2 = 1 THEN "A1" ELSE "A2"

\* The base-coin amount of the output with this id. Distinct ids carry
\* distinct amounts, such that a sum tells which outputs went into it.
AmountOf(id) == 2 * id + MaxReturnAmount

\* the output ids of an address, in ascending order
RECURSIVE IdsOf(_, _)
IdsOf(a, n) ==
    IF n = 0 THEN <<>>
    ELSE IF n \in OutputIds /\ OwnerOf(n) = a
         THEN Append(IdsOf(a, n - 1), n) ELSE IdsOf(a, n - 1)

\* account_details.addresses_with_unspent_outputs
addresses_with_unspent_outputs ==
    << [address |-> "A1", output_ids |-> IdsOf("A1", Cardinality(OutputIds))],
       [address |-> "A2", output_ids |-> IdsOf("A2", Cardinality(OutputIds))] >>

\* Unlock conditions: the kinds present, in their canonical order, with the
\* parameters of the StorageDepositReturn, Timelock and Expiration ones.
UnlockConditions(kinds, ret, ramount, tl, ex) ==
    [kinds |-> kinds, return_address |-> ret, return_amount |-> ramount,
     timelock |-> tl, expiration |-> ex]

\* The unlock conditions of a Basic output: an Address condition and any of
\* StorageDepositReturn, Timelock (slot > 0) and Expiration. A return to an
\* address of the account is drawn without the other two.
BasicUnlockConditions ==
    { UnlockConditions(
          {"Address"} \cup (IF sdr[2] > 0 THEN {"StorageDepositReturn"} ELSE {})
                      \cup (IF tl > 0 THEN {"Timelock"} ELSE {})
                      \cup (IF ex > 0 THEN {"Expiration"} ELSE {}),
          sdr[1], sdr[2], tl, ex) :
        sdr \in {<<"none", 0>>} \cup ({ForeignAddress} \X (1..MaxReturnAmount)),
        tl \in {0, MaxSlot},
        ex \in {0, 1} }
    \cup
    { UnlockConditions({"Address", "StorageDepositReturn"}, "A1", n, 0, 0) :
        n \in 1..MaxReturnAmount }

AddressOnly == UnlockConditions({"Address"}, "none", 0, 0, 0)

Output(kind, amount, tokens, uc) ==
    [kind |-> kind, amount |-> amount, native_tokens |-> tokens,
     unlock_conditions |-> uc]

\* The outputs an id can stand for: Basic outputs without native tokens under
\* every combination of unlock conditions, and each other kind of output
\* (and a Basic output with native tokens) under the conditions its kind has.
Outputs(id) ==
    { Output("Basic", AmountOf(id), NoTokens, uc) : uc \in BasicUnlockConditions }
    \cup
    { Output("Basic", AmountOf(id), [t \in TokenIds |-> n], AddressOnly) :
        n \in 1..MaxTokenAmount }
    \cup
    { Output("Nft", AmountOf(id), NoTokens, AddressOnly),
      Output("Alias", AmountOf(id), NoTokens,
             UnlockConditions({"StateControllerAddress", "GovernorAddress"},
                              "none", 0, 0, 0)),
      Output("Foundry", AmountOf(id), [t \in TokenIds |-> MaxTokenAmount],
             UnlockConditions({"ImmutableAliasAddress"}, "none", 0, 0, 0)) }

\* The output data an id can stand for. Of an output of another network the
\* code reads the network id alone, so that fewer of them are drawn: one
\* under each branch of the classification, and one with native tokens.
OutputData(id) ==
    { [output |-> o, network_id |-> "net"] : o \in Outputs(id) }
    \cup
    { [output |-> o, network_id |-> "othernet"] :
        o \in { x \in Outputs(id) :
                  \/ x.kind = "Foundry"
                  \/ x.kind = "Basic" /\ x.unlock_conditions.kinds = {"Address"}
                                      /\ x.native_tokens = NoTokens
                  \/ x.kind = "Basic" /\ x.unlock_conditions.kinds =
                                            {"Address", "Expiration"} } }

----------------------------------------------------------------------------
\* TimelockUnlockCondition and the helpers of time.rs.

\* verify_slot_index::<VERIFY>
verify_slot_index(VERIFY, slot_index) ==
    IF VERIFY /\ slot_index = 0 THEN "TimelockUnlockConditionZero" ELSE "Ok"

\* TimelockUnlockCondition::new: Ok(Self(slot_index)) or the error
TimelockNew(slot_index) ==
    LET v == verify_slot_index(TRUE, slot_index)
    IN  IF v = "Ok" THEN [ok |-> TRUE, slot_index |-> slot_index, error |-> "none"]
        ELSE [ok |-> FALSE, slot_index |-> 0, error |-> v]

\* is_timelocked with the boundary slot still locked
is_timelocked_inclusive(lock_slot, slot_index, min_committable_age) ==
    (slot_index + min_committable_age) <= lock_slot

\* TimelockUnlockCondition::is_timelocked
is_timelocked(lock_slot, slot_index, min_committable_age) ==
    (slot_index + min_committable_age) < lock_slot

\* UnlockConditions::is_timelocked: the Timelock condition's answer, false
\* without one
conditions_timelocked(uc, slot_index, min_committable_age) ==
    /\ "Timelock" \in uc.kinds
    /\ is_timelocked(uc.timelock, slot_index, min_committable_age)

\* Output::unlock_conditions is None for an output kind without conditions
has_unlock_conditions(output) == output.kind # "Treasury"

\* can_output_be_unlocked_forever_from_now_on without the timelock check
unlocked_forever_ignoring_timelock(output, slot_index, min_committable_age) ==
    has_unlock_conditions(output)

\* can_output_be_unlocked_forever_from_now_on
can_output_be_unlocked_forever_from_now_on(output, slot_index, min_committable_age) ==
    IF has_unlock_conditions(output)
    THEN IF conditions_timelocked(output.unlock_conditions, slot_index,
                                  min_committable_age)
         THEN FALSE
         ELSE TRUE
    ELSE FALSE

\* can_output_be_unlocked_now; required is what Output::required_address
\* answers: "Err", "None" (unwrap panics) or an address
can_output_be_unlocked_now(wallet_address, output, slot_index, min_age, required) ==
    IF /\ has_unlock_conditions(output)
       /\ conditions_timelocked(output.unlock_conditions, slot_index, min_age)
    THEN "false"
    ELSE IF required = "Err" THEN "Err"
    ELSE IF required = "None" THEN "panic"
    ELSE IF wallet_address = required THEN "true" ELSE "false"

----------------------------------------------------------------------------
\* Balance values.

\* Balance::default()
DefaultBalance ==
    [base_coin |-> [total |-> 0, available |-> 0, voting_power |-> 0],
     required_storage_deposit |-> [basic |-> 0, alias |-> 0, foundry |-> 0, nft |-> 0],
     native_tokens |-> {},
     aliases |-> <<>>, foundries |-> <<>>, nfts |-> <<>>,
     potentially_locked_outputs |-> << >>]

\* balance += output_balance
BalanceAdd(b, o) ==
    [b EXCEPT
        !.base_coin.total = @ + o.base_coin.total,
        !.required_storage_deposit.basic = @ + o.required_storage_deposit.basic,
        !.required_storage_deposit.alias = @ + o.required_storage_deposit.alias,
        !.required_storage_deposit.foundry = @ + o.required_storage_deposit.foundry,
        !.required_storage_deposit.nft = @ + o.required_storage_deposit.nft,
        !.aliases = @ \o o.aliases,
        !.foundries = @ \o o.foundries,
        !.nfts = @ \o o.nfts]

\* potentially_locked_outputs.insert(output_id, flag)
MapInsert(m, k, v) == [x \in DOMAIN m \cup {k} |-> IF x = k THEN v ELSE m[x]]

\* Output::native_tokens().is_empty()
TokensEmpty(tokens) == \A t \in TokenIds : tokens[t] = 0

\* NativeTokensBuilder::add_native_tokens
add_native_tokens(builder, tokens) == [t \in TokenIds |-> builder[t] + tokens[t]]

\* Output::rent_cost: a deterministic function of the output's content
rent_cost(output) == 1 + (IF TokensEmpty(output.native_tokens) THEN 0 ELSE 1)

\* the per-output Balance fragment of balance_inner, before classification
OutputBalance(id, output) ==
    LET rent == rent_cost(output)
        b0 == [DefaultBalance EXCEPT !.base_coin.total = @ + output.amount]
    IN  CASE output.kind = "Basic" ->
                [b0 EXCEPT !.required_storage_deposit.basic = @ + rent]
          [] output.kind = "Alias" ->
                [b0 EXCEPT !.required_storage_deposit.alias = @ + rent,
                           !.aliases = Append(@, id)]
          [] output.kind = "Foundry" ->
                [b0 EXCEPT !.required_storage_deposit.foundry = @ + rent,
                           !.foundries = Append(@, id)]
          [] output.kind = "Nft" ->
                [b0 EXCEPT !.required_storage_deposit.nft = @ + rent,
                           !.nfts = Append(@, id)]
          [] OTHER -> b0

\* RentReserved without the exemption of Basic outputs without native tokens
RentReservedForEveryOutput(id, output, locked) ==
    IF id \notin locked THEN rent_cost(output) ELSE 0

\* the rent balance_inner adds to total_rent_amount for one output
RentReserved(id, output, locked) ==
    IF id \notin locked
    THEN IF output.kind = "Basic"
         THEN IF ~TokensEmpty(output.native_tokens) THEN rent_cost(output) ELSE 0
         ELSE rent_cost(output)
    ELSE 0

\* [UnlockCondition::Address(_)] = unlock_conditions.as_ref()
OnlyAddress(output) == output.unlock_conditions.kinds = {"Address"}

\* Classify dropping what is not claimable and has no Expiration condition
ClassifyDroppingWithoutExpiration(output, is_claimable, time, age) ==
    LET uc == output.unlock_conditions IN
    IF is_claimable
    THEN IF can_output_be_unlocked_forever_from_now_on(output, time, age)
         THEN IF /\ "StorageDepositReturn" \in uc.kinds
                 /\ uc.return_address \notin AccountAddresses
              THEN [do |-> "merge", minus |-> uc.return_amount, flag |-> FALSE]
              ELSE [do |-> "merge", minus |-> 0, flag |-> FALSE]
         ELSE [do |-> "insert", minus |-> 0, flag |-> TRUE]
    ELSE IF "Expiration" \in uc.kinds /\ time < uc.expiration
         THEN [do |-> "insert", minus |-> 0, flag |-> FALSE]
         ELSE [do |-> "drop", minus |-> 0, flag |-> FALSE]

\* Classify subtracting the returned amount whoever it returns to
ClassifySubtractingEveryReturn(output, is_claimable, time, age) ==
    LET uc == output.unlock_conditions IN
    IF is_claimable
    THEN IF can_output_be_unlocked_forever_from_now_on(output, time, age)
         THEN IF "StorageDepositReturn" \in uc.kinds
              THEN [do |-> "merge", minus |-> uc.return_amount, flag |-> FALSE]
              ELSE [do |-> "merge", minus |-> 0, flag |-> FALSE]
         ELSE [do |-> "insert", minus |-> 0, flag |-> TRUE]
    ELSE IF "Expiration" \in uc.kinds
         THEN IF time < uc.expiration
              THEN [do |-> "insert", minus |-> 0, flag |-> FALSE]
              ELSE [do |-> "drop", minus |-> 0, flag |-> FALSE]
         ELSE [do |-> "insert", minus |-> 0, flag |-> FALSE]

\* What balance_inner does with an output that has more than an Address
\* condition: "merge" its fragment (with the amount to take off it),
\* "insert" it into potentially_locked_outputs with a flag, or "drop" it.
Classify(output, is_claimable, time, age) ==
    LET uc == output.unlock_conditions IN
    IF is_claimable
    THEN IF can_output_be_unlocked_forever_from_now_on(output, time, age)
         THEN IF /\ "StorageDepositReturn" \in uc.kinds
                 /\ uc.return_address \notin AccountAddresses
              THEN [do |-> "merge", minus |-> uc.return_amount, flag |-> FALSE]
              ELSE [do |-> "merge", minus |-> 0, flag |-> FALSE]
         ELSE [do |-> "insert", minus |-> 0, flag |-> TRUE]
    ELSE IF "Expiration" \in uc.kinds
         THEN IF time < uc.expiration
              THEN [do |-> "insert", minus |-> 0, flag |-> FALSE]
              ELSE [do |-> "drop", minus |-> 0, flag |-> FALSE]
         ELSE [do |-> "insert", minus |-> 0, flag |-> FALSE]

----------------------------------------------------------------------------
\* The state.

VARIABLES
    \* account_details: the outputs (a map OutputId -> OutputData) and the
    \* reserved outputs
    unspent_outputs, locked_outputs,
    \* the client: ledger time and the min_committable_age parameter
    local_time, min_committable_age,
    \* whether the build has the "participation" feature
    participation,
    \* where the call is: "idle", "loop", "done", "error", "panic"; "helpers"
    \* and "helped" where the helpers are called on their own
    pc,
    \* the rest of the iteration over addresses and their output ids
    todo,
    \* get_voting_output(): a set of at most one [address, amount]
    voting_output,
    \* the locals of balance_inner
    balance, total_rent_amount, total_native_tokens,
    \* the locals of finish
    locked_amount, locked_native_tokens,
    \* the answers claimable_outputs has given, OutputId -> BOOLEAN
    claim_answers,
    \* history: what happened to each output id the loop has handled,
    \* OutputId -> [do, amount], and what each reserved id added in finish
    handled, locked_counted,
    \* the last evaluation of the TimelockUnlockCondition functions and of
    \* the helpers of time.rs
    timelock_call, helper_call

vars == << unspent_outputs, locked_outputs, local_time, min_committable_age,
           participation, pc, todo, voting_output, balance, total_rent_amount,
           total_native_tokens, locked_amount, locked_native_tokens,
           claim_answers, handled, locked_counted, timelock_call, helper_call >>

snapshot == << unspent_outputs, locked_outputs, local_time, min_committable_age,
               participation >>

NoCall == [op |-> "none"]

\* the network the client is connected to
network_id == "net"

\* The ids an address list iterates over, as the loops of balance_inner
\* visit them: each address, then each of its output ids.
RECURSIVE Iteration(_)
Iteration(addresses) ==
    IF addresses = <<>> THEN <<>>
    ELSE << <<"address", Head(addresses).address>> >>
         \o [i \in 1..Len(Head(addresses).output_ids) |->
                <<"output", Head(addresses).output_ids[i]>>]
         \o Iteration(Tail(addresses))

\* the fresh locals of balance_inner and finish
FreshLocals ==
    /\ balance = DefaultBalance
    /\ total_rent_amount = 0
    /\ total_native_tokens = NoTokens
    /\ locked_amount = 0
    /\ locked_native_tokens = NoTokens
    /\ claim_answers = << >>
    /\ handled = << >>
    /\ locked_counted = << >>
    /\ voting_output = {}
    /\ todo = <<>>

Init ==
    /\ \E known \in SUBSET OutputIds :
          \E f \in [known -> OutputData(1)] :
             unspent_outputs =
                [id \in known |-> [f[id] EXCEPT !.output.amount = AmountOf(id)]]
    /\ locked_outputs \in SUBSET OutputIds
    /\ local_time \in 0..MaxSlot
    /\ min_committable_age \in 0..MaxAge
    /\ participation \in BOOLEAN
    /\ pc = "idle"
    /\ FreshLocals
    /\ timelock_call = NoCall
    /\ helper_call = NoCall

----------------------------------------------------------------------------
\* Account::balance and Account::addresses_balance.

\* what get_voting_output() can return
VotingOutputs ==
    IF participation
    THEN {{}, {[address |-> "A1", amount |-> 1]}}
    ELSE {{}}

Start(addresses, vo) ==
    /\ pc' = "loop"
    /\ todo' = Iteration(addresses)
    /\ voting_output' = vo
    /\ UNCHANGED << snapshot, balance, total_rent_amount, total_native_tokens,
                    locked_amount, locked_native_tokens, claim_answers, handled,
                    locked_counted, timelock_call, helper_call >>

\* Account::balance: every address of the account
Balance ==
    /\ pc = "idle"
    /\ \E vo \in VotingOutputs : Start(addresses_with_unspent_outputs, vo)

\* the entry of addresses_with_unspent_outputs for an address, as a set
FindAddress(address) ==
    { addresses_with_unspent_outputs[i] :
        i \in { j \in 1..Len(addresses_with_unspent_outputs) :
                  addresses_with_unspent_outputs[j].address = address } }

\* the address lists addresses_balance is called with
AddressArgs == { <<"A1">>, <<"A2">>, <<"A2", "A1">>, <<ForeignAddress>> }

\* Account::addresses_balance
AddressesBalance ==
    /\ pc = "idle"
    /\ \E addresses \in AddressArgs :
          IF \E i \in 1..Len(addresses) : FindAddress(addresses[i]) = {}
          THEN /\ pc' = "error"
               /\ UNCHANGED << snapshot, todo, voting_output, balance,
                               total_rent_amount, total_native_tokens,
                               locked_amount, locked_native_tokens, claim_answers,
                               handled, locked_counted, timelock_call, helper_call >>
          ELSE \E vo \in VotingOutputs :
                  Start([i \in 1..Len(addresses) |->
                            CHOOSE a \in FindAddress(addresses[i]) : TRUE], vo)

----------------------------------------------------------------------------
\* Account::balance_inner: the loops.

\* the start of the outer loop's body: the voting power of the address
VisitAddress ==
    /\ pc = "loop"
    /\ todo # <<>>
    /\ Head(todo)[1] = "address"
    /\ balance' =
          IF participation /\ \E vo \in voting_output : vo.address = Head(todo)[2]
          THEN [balance EXCEPT !.base_coin.voting_power =
                   (CHOOSE vo \in voting_output : TRUE).amount]
          ELSE balance
    /\ todo' = Tail(todo)
    /\ UNCHANGED << snapshot, pc, voting_output, total_rent_amount,
                    total_native_tokens, locked_amount, locked_native_tokens,
                    claim_answers, handled, locked_counted, timelock_call,
                    helper_call >>

\* the history of an output id: what the loop did with it and the amount
\* that step added to base_coin.total
Handled(id, do, b) ==
    handled' = MapInsert(handled, id,
                  [do |-> do,
                   amount |-> b.base_coin.total - balance.base_coin.total])

\* OfThisNetwork without the comparison
OfAnyNetwork(data) == TRUE

\* data.network_id != network_id, negated
OfThisNetwork(data) == data.network_id = network_id

\* the inner loop's body for an output id that is not in unspent_outputs or
\* belongs to another network
SkipOutput ==
    /\ pc = "loop"
    /\ todo # <<>>
    /\ Head(todo)[1] = "output"
    /\ LET id == Head(todo)[2] IN
       /\ \/ id \notin DOMAIN unspent_outputs
          \/ /\ id \in DOMAIN unspent_outputs
             /\ ~OfThisNetwork(unspent_outputs[id])
       /\ Handled(id, "skip", balance)
    /\ todo' = Tail(todo)
    /\ UNCHANGED << snapshot, pc, voting_output, balance, total_rent_amount,
                    total_native_tokens, locked_amount, locked_native_tokens,
                    claim_answers, locked_counted, timelock_call, helper_call >>

\* ApplyClassification merging the fragment of an inserted output as well
ApplyClassificationMergingInserted(b, id, output_balance, c) ==
    CASE c.do = "merge" ->
            BalanceAdd(b, [output_balance EXCEPT !.base_coin.total = @ - c.minus])
      [] c.do = "insert" ->
            BalanceAdd([b EXCEPT !.potentially_locked_outputs =
                           MapInsert(@, id, c.flag)],
                       output_balance)
      [] OTHER -> b

\* the branches of balance_inner below the classification: the fragment is
\* merged (less the amount to return), or the id is inserted into
\* potentially_locked_outputs, or nothing happens
ApplyClassification(b, id, output_balance, c) ==
    CASE c.do = "merge" ->
            BalanceAdd(b, [output_balance EXCEPT !.base_coin.total = @ - c.minus])
      [] c.do = "insert" ->
            [b EXCEPT !.potentially_locked_outputs = MapInsert(@, id, c.flag)]
      [] OTHER -> b

\* the inner loop's body for an output of the current network
ProcessOutput ==
    /\ pc = "loop"
    /\ todo # <<>>
    /\ Head(todo)[1] = "output"
    /\ LET id == Head(todo)[2] IN
       /\ id \in DOMAIN unspent_outputs
       /\ OfThisNetwork(unspent_outputs[id])
       /\ LET output == unspent_outputs[id].output
              output_balance == OutputBalance(id, output)
          IN
          /\ total_rent_amount' =
                total_rent_amount + RentReserved(id, output, locked_outputs)
          /\ total_native_tokens' =
                add_native_tokens(total_native_tokens, output.native_tokens)
          /\ IF OnlyAddress(output)
             THEN /\ balance' = BalanceAdd(balance, output_balance)
                  /\ Handled(id, "merge", balance')
                  /\ UNCHANGED claim_answers
             ELSE \E is_claimable \in
                        (IF id \in DOMAIN claim_answers
                         THEN {claim_answers[id]} ELSE BOOLEAN) :
                     LET c == Classify(output, is_claimable, local_time,
                                       min_committable_age)
                     IN
                     /\ claim_answers' = MapInsert(claim_answers, id, is_claimable)
                     /\ balance' = ApplyClassification(balance, id, output_balance, c)
                     /\ Handled(id, c.do, balance')
    /\ todo' = Tail(todo)
    /\ UNCHANGED << snapshot, pc, voting_output, locked_amount,
                    locked_native_tokens, locked_counted, timelock_call,
                    helper_call >>

----------------------------------------------------------------------------
\* Account::finish.

RECURSIVE SumOver(_, _)
SumOver(f, S) ==
    IF S = {} THEN 0
    ELSE LET x == CHOOSE x \in S : TRUE IN f[x] + SumOver(f, S \ {x})

\* LockedCounts without the skip of potentially_locked_outputs
LockedCountsPotentiallyLocked(id, potentially_locked) ==
    /\ id \in DOMAIN unspent_outputs
    /\ OfThisNetwork(unspent_outputs[id])

\* whether the loop over locked_outputs counts a reserved output id
LockedCounts(id, potentially_locked) ==
    /\ id \notin DOMAIN potentially_locked
    /\ id \in DOMAIN unspent_outputs
    /\ OfThisNetwork(unspent_outputs[id])

\* what one reserved output id adds to locked_amount
LockedAmountOf(id, potentially_locked) ==
    IF LockedCounts(id, potentially_locked)
    THEN unspent_outputs[id].output.amount ELSE 0

\* what one reserved output id adds to locked_native_tokens
LockedTokensOf(id, potentially_locked) ==
    IF LockedCounts(id, potentially_locked)
    THEN unspent_outputs[id].output.native_tokens ELSE NoTokens

\* the subtraction without saturation
plain_sub(a, b) == a - b

\* u64::saturating_sub
saturating_sub(a, b) == IF a >= b THEN a - b ELSE 0

\* base_coin.available as the two cfg blocks of finish compute it
Available(total, locked, voting_power) ==
    IF participation
    THEN saturating_sub(saturating_sub(total, locked), voting_power)
    ELSE saturating_sub(total, locked)

\* the end of balance_inner: finish. The subtraction of a token's locked
\* amount from its total is one of U256, which panics below zero.
Finish ==
    /\ pc = "loop"
    /\ todo = <<>>
    /\ LET pl == balance.potentially_locked_outputs
           counted == [id \in locked_outputs |-> LockedAmountOf(id, pl)]
           locked_tokens ==
               [t \in TokenIds |->
                   SumOver([id \in locked_outputs |-> LockedTokensOf(id, pl)[t]],
                           locked_outputs)]
           locked == SumOver(counted, locked_outputs) + total_rent_amount
           listed == { t \in TokenIds : total_native_tokens[t] > 0 }
       IN
       /\ locked_counted' = counted
       /\ locked_native_tokens' = locked_tokens
       /\ locked_amount' = locked
       /\ IF \E t \in listed : locked_tokens[t] > total_native_tokens[t]
          THEN /\ pc' = "panic"
               /\ balance' = balance
          ELSE /\ pc' = "done"
               /\ balance' =
                     [balance EXCEPT
                        !.native_tokens =
                            { [token_id |-> t, total |-> total_native_tokens[t],
                               available |-> total_native_tokens[t] - locked_tokens[t]] :
                              t \in listed },
                        !.base_coin.available =
                            Available(balance.base_coin.total, locked,
                                      balance.base_coin.voting_power)]
    /\ UNCHANGED << snapshot, todo, voting_output, total_rent_amount,
                    total_native_tokens, claim_answers, handled, timelock_call,
                    helper_call >>

Next ==
    \/ Balance
    \/ AddressesBalance
    \/ VisitAddress
    \/ SkipOutput
    \/ ProcessOutput
    \/ Finish

Spec == Init /\ [][Next]_vars

----------------------------------------------------------------------------
\* The functions of timelock.rs and time.rs, called on their own.

\* the record of one call that makes (or fails to make) a
\* TimelockUnlockCondition; value is the slot index the value holds and
\* slot_index what slot_index() returns on it
TimelockResult(op, arg, error) ==
    [op |-> op, arg |-> arg, ok |-> error = "Ok",
     error |-> IF error = "Ok" THEN "none" ELSE error,
     value |-> IF error = "Ok" THEN arg ELSE 0,
     slot_index |-> IF error = "Ok" THEN arg ELSE 0]

HelperUnchanged ==
    UNCHANGED << snapshot, todo, voting_output, balance, total_rent_amount,
                 total_native_tokens, locked_amount, locked_native_tokens,
                 claim_answers, handled, locked_counted >>

\* TimelockUnlockCondition::new(slot_index)
New ==
    /\ pc = "helpers"
    /\ \E s \in 0..MaxSlot :
          timelock_call' =
             LET r == TimelockNew(s)
             IN  TimelockResult("new", s, IF r.ok THEN "Ok" ELSE r.error)
    /\ UNCHANGED << pc, helper_call >>
    /\ HelperUnchanged

\* TimelockUnlockCondition::from(slot_index), the derived From
From ==
    /\ pc = "helpers"
    /\ \E s \in 0..MaxSlot : timelock_call' = TimelockResult("from", s, "Ok")
    /\ UNCHANGED << pc, helper_call >>
    /\ HelperUnchanged

\* Packable::unpack::<_, VERIFY>: verify_with = verify_slot_index
Unpack ==
    /\ pc = "helpers"
    /\ \E s \in 0..MaxSlot, VERIFY \in BOOLEAN :
          timelock_call' = TimelockResult("unpack", s, verify_slot_index(VERIFY, s))
    /\ UNCHANGED << pc, helper_call >>
    /\ HelperUnchanged

\* TryFrom<TimelockUnlockConditionDto>: new, with the error mapped
TryFromDto ==
    /\ pc = "helpers"
    /\ \E s \in 0..MaxSlot :
          timelock_call' =
             TimelockResult("try_from", s,
                            IF TimelockNew(s).ok THEN "Ok" ELSE "InvalidField")
    /\ UNCHANGED << pc, helper_call >>
    /\ HelperUnchanged

\* the outputs the helpers are called with: those of the account and one
\* without unlock conditions
HelperOutputs ==
    Outputs(1) \cup {Output("Treasury", AmountOf(1), NoTokens,
                            UnlockConditions({}, "none", 0, 0, 0))}

\* TimelockUnlockCondition::is_timelocked(slot_index, min_committable_age),
\* on the value the last call has made
IsTimelocked ==
    /\ pc = "helpers"
    /\ timelock_call # NoCall
    /\ timelock_call.ok
    /\ \E lock \in {timelock_call.value}, slot \in 0..MaxSlot, age \in 0..MaxAge :
          helper_call' = [op |-> "is_timelocked", lock_slot |-> lock,
                          slot_index |-> slot, min_committable_age |-> age,
                          result |-> is_timelocked(lock, slot, age)]
    /\ pc' = "helped"
    /\ UNCHANGED timelock_call
    /\ HelperUnchanged

\* can_output_be_unlocked_now(wallet_address, output_data, slot_index, ...)
CanUnlockNow ==
    /\ pc = "helpers"
    /\ \E output \in HelperOutputs, slot \in 0..MaxSlot, age \in 0..MaxAge,
          required \in {"Err", "None", "A1", ForeignAddress} :
          helper_call' = [op |-> "can_output_be_unlocked_now", output |-> output,
                          slot_index |-> slot, min_committable_age |-> age,
                          result |-> can_output_be_unlocked_now(
                                        "A1", output, slot, age, required)]
    /\ pc' = "helped"
    /\ UNCHANGED timelock_call
    /\ HelperUnchanged

\* can_output_be_unlocked_forever_from_now_on(wallet_address, output, ...)
CanUnlockForever ==
    /\ pc = "helpers"
    /\ \E output \in HelperOutputs, slot \in 0..MaxSlot, age \in 0..MaxAge :
          helper_call' = [op |-> "can_output_be_unlocked_forever_from_now_on",
                          output |-> output,
                          slot_index |-> slot, min_committable_age |-> age,
                          result |-> IF can_output_be_unlocked_forever_from_now_on(
                                           output, slot, age)
                                     THEN "true" ELSE "false"]
    /\ pc' = "helped"
    /\ UNCHANGED timelock_call
    /\ HelperUnchanged

HelperInit ==
    /\ unspent_outputs = << >>
    /\ locked_outputs = {}
    /\ local_time = 0
    /\ min_committable_age = 0
    /\ participation = FALSE
    /\ pc = "helpers"
    /\ FreshLocals
    /\ timelock_call = NoCall
    /\ helper_call = NoCall

HelperNext ==
    \/ New
    \/ From
    \/ Unpack
    \/ TryFromDto
    \/ IsTimelocked
    \/ CanUnlockNow
    \/ CanUnlockForever

HelperSpec == HelperInit /\ [][HelperNext]_vars

----------------------------------------------------------------------------
\* What the properties below speak of.

PotentiallyLocked == balance.potentially_locked_outputs

\* the loop has handled the id as an output of the connected network
Processed(id) ==
    /\ id \in DOMAIN handled
    /\ id \in DOMAIN unspent_outputs
    /\ unspent_outputs[id].network_id = "net"

ConditionsOf(id) == unspent_outputs[id].output.unlock_conditions

\* the loop has handled the id as an output with more than an Address
\* condition, and claimable_outputs has answered for it
Conditional(id, answer) ==
    /\ Processed(id)
    /\ ConditionsOf(id).kinds # {"Address"}
    /\ id \in DOMAIN claim_answers
    /\ claim_answers[id] = answer

\* nothing of the id in the balance: no amount, no key
IsDropped(id) ==
    /\ handled[id].amount = 0
    /\ id \notin DOMAIN PotentiallyLocked

\* the id is a key of potentially_locked_outputs with this flag and has
\* added no amount
IsInserted(id, flag) ==
    /\ handled[id].amount = 0
    /\ id \in DOMAIN PotentiallyLocked
    /\ PotentiallyLocked[id] = flag

----------------------------------------------------------------------------
\* C1, as stated: an output that is not claimable is inserted with false if it
\* has an Expiration condition that the time is still before, and is dropped
\* in every other case.
NotClaimableAsStated ==
    \A id \in OutputIds :
        Conditional(id, FALSE) =>
            IF /\ "Expiration" \in ConditionsOf(id).kinds
               /\ local_time < ConditionsOf(id).expiration
            THEN IsInserted(id, FALSE)
            ELSE IsDropped(id)

\* C1, amended: an output that is not claimable is dropped if it has an
\* Expiration condition whose timestamp the time has reached, and is inserted
\* into potentially_locked_outputs with false, its amount left out of
\* base_coin.total, in every other case (no Expiration condition, or the
\* time still before its timestamp).
NotClaimableOutcome ==
    \A id \in OutputIds :
        Conditional(id, FALSE) =>
            IF /\ "Expiration" \in ConditionsOf(id).kinds
               /\ local_time >= ConditionsOf(id).expiration
            THEN IsDropped(id)
            ELSE IsInserted(id, FALSE)

NotClaimableWithoutExpirationSeen ==
    \E id \in OutputIds :
        /\ Conditional(id, FALSE)
        /\ "Expiration" \notin ConditionsOf(id).kinds
        /\ IsInserted(id, FALSE)

----------------------------------------------------------------------------
\* C2: after any prefix of the outputs, no output id that has added its amount
\* to base_coin.total is a key of potentially_locked_outputs, no key of
\* potentially_locked_outputs has added an amount, and base_coin.total is the
\* sum of the amounts the handled ids have added.
MutualExclusion ==
    /\ \A id \in DOMAIN handled :
          /\ handled[id].amount > 0 => id \notin DOMAIN PotentiallyLocked
          /\ handled[id].do = "merge" => id \notin DOMAIN PotentiallyLocked
          /\ id \in DOMAIN PotentiallyLocked => handled[id].amount = 0
    /\ DOMAIN PotentiallyLocked \subseteq DOMAIN handled
    /\ balance.base_coin.total =
          SumOver([id \in DOMAIN handled |-> handled[id].amount], DOMAIN handled)

MergedAndLockedSeen ==
    \E a, b \in OutputIds :
        /\ a \in DOMAIN handled /\ handled[a].do = "merge" /\ handled[a].amount > 0
        /\ b \in DOMAIN PotentiallyLocked

----------------------------------------------------------------------------
\* C3: an output of the connected network with a Timelock condition whose slot
\* is above local_time + min_committable_age adds nothing to base_coin.total;
\* if it is reported claimable it is a key of potentially_locked_outputs with
\* true.
Timelocked(id) ==
    /\ Processed(id)
    /\ "Timelock" \in ConditionsOf(id).kinds
    /\ local_time + min_committable_age < ConditionsOf(id).timelock

TimelockedNeverMerged ==
    \A id \in OutputIds :
        Timelocked(id) =>
            /\ handled[id].amount = 0
            /\ handled[id].do # "merge"
            /\ claim_answers[id] => IsInserted(id, TRUE)

TimelockedClaimableSeen ==
    \E id \in OutputIds :
        Timelocked(id) /\ claim_answers[id] /\ IsInserted(id, TRUE)

----------------------------------------------------------------------------
\* C4: an output with more than an Address condition that is claimable and
\* unlockable forever adds its amount less the StorageDepositReturn amount if
\* it has that condition with a return address that is not of the account,
\* and its full amount otherwise; what it adds is within 0..amount.
ReturnsElsewhere(id) ==
    /\ "StorageDepositReturn" \in ConditionsOf(id).kinds
    /\ ConditionsOf(id).return_address \notin {"A1", "A2"}

ClaimableForever(id) ==
    /\ Conditional(id, TRUE)
    /\ ~ ( /\ "Timelock" \in ConditionsOf(id).kinds
           /\ local_time + min_committable_age < ConditionsOf(id).timelock )

----------------------------------------------------------------------------
\* C5: in finish, a reserved id that is a key of potentially_locked_outputs
\* adds nothing to locked_amount and to the locked native tokens; every other
\* reserved id that is known and of the connected network adds its amount,
\* once; a reserved id of another network, or an unknown one, adds nothing.
Finished == pc \in {"done", "panic"}

ExpectedLocked(id) ==
    IF id \in DOMAIN PotentiallyLocked THEN 0
    ELSE IF id \in DOMAIN unspent_outputs /\ unspent_outputs[id].network_id = "net"
         THEN unspent_outputs[id].output.amount
         ELSE 0

ExpectedLockedTokens(id, t) ==
    IF ExpectedLocked(id) = 0 THEN 0
    ELSE unspent_outputs[id].output.native_tokens[t]

ReservationExclusive ==
    Finished =>
        /\ \A id \in locked_outputs : locked_counted[id] = ExpectedLocked(id)
        /\ locked_amount - total_rent_amount =
              SumOver([id \in locked_outputs |-> ExpectedLocked(id)], locked_outputs)
        /\ \A t \in TokenIds :
              locked_native_tokens[t] =
                 SumOver([id \in locked_outputs |-> ExpectedLockedTokens(id, t)],
                         locked_outputs)

ReservedLockedAndCountedSeen ==
    /\ pc = "done"
    /\ \E a, b \in locked_outputs :
          /\ a \in DOMAIN PotentiallyLocked
          /\ locked_counted[a] = 0
          /\ b \notin DOMAIN PotentiallyLocked
          /\ locked_counted[b] > 0
          /\ locked_amount >= locked_counted[b]

----------------------------------------------------------------------------
\* C6: in every returned Balance, base_coin.available is base_coin.total less
\* locked_amount (and less voting_power with the participation feature), or 0
\* where that is below 0; locked_amount is the counted reserved amounts plus
\* total_rent_amount; 0 <= available <= total.
AvailableSaturates ==
    pc = "done" =>
        LET total == balance.base_coin.total
            minus == locked_amount
                     + (IF participation THEN balance.base_coin.voting_power ELSE 0)
        IN
        /\ locked_amount =
              SumOver(locked_counted, locked_outputs) + total_rent_amount
        /\ balance.base_coin.available = (IF total >= minus THEN total - minus ELSE 0)
        /\ balance.base_coin.available >= 0
        /\ balance.base_coin.available <= total

LockedAboveTotalSeen ==
    /\ pc = "done"
    /\ locked_amount > balance.base_coin.total
    /\ balance.base_coin.total > 0
    /\ balance.base_coin.available = 0

----------------------------------------------------------------------------
\* C7: an owned output of another network changes no field of the Balance:
\* the step of the loop that meets it leaves the balance, total_rent_amount
\* and the native token totals as they are, it never becomes a key of
\* potentially_locked_outputs, and finish counts nothing for it.
OfOtherNetwork(id) ==
    /\ id \in DOMAIN unspent_outputs
    /\ unspent_outputs[id].network_id # "net"

CrossNetworkStep ==
    /\ ( /\ pc = "loop"
         /\ todo # <<>>
         /\ Head(todo)[1] = "output"
         /\ OfOtherNetwork(Head(todo)[2]) )
       => /\ balance' = balance
          /\ total_rent_amount' = total_rent_amount
          /\ total_native_tokens' = total_native_tokens
          /\ locked_amount' = locked_amount
          /\ locked_native_tokens' = locked_native_tokens
    /\ \A id \in OutputIds :
          OfOtherNetwork(id) =>
             /\ id \notin DOMAIN balance'.potentially_locked_outputs
             /\ id \in DOMAIN handled' => handled'[id].amount = 0
    /\ pc' \in {"done", "panic"} =>
          /\ \A id \in locked_outputs :
                OfOtherNetwork(id) => locked_counted'[id] = 0
          /\ LET here == { id \in locked_outputs : ~OfOtherNetwork(id) } IN
             /\ locked_amount' - total_rent_amount' =
                   SumOver([id \in here |-> locked_counted'[id]], here)
             /\ \A t \in TokenIds :
                   locked_native_tokens'[t] =
                      SumOver([id \in here |->
                                  IF locked_counted'[id] > 0
                                  THEN unspent_outputs[id].output.native_tokens[t]
                                  ELSE 0], here)

CrossNetworkInvisible == [][CrossNetworkStep]_vars

CrossNetworkReservedSeen ==
    /\ pc = "done"
    /\ \E id \in locked_outputs :
          /\ OfOtherNetwork(id)
          /\ id \in DOMAIN handled
          /\ unspent_outputs[id].output.native_tokens # NoTokens
    /\ balance.base_coin.total > 0

----------------------------------------------------------------------------
\* C10: total_rent_amount is the sum, over the handled outputs of the
\* connected network that are not reserved, of the rent cost of each output
\* that is not Basic or that is Basic with a native token, and of 0 for Basic
\* outputs without native tokens. When every output of the account is an
\* unreserved Basic output without native tokens and with an Address
\* condition alone, and the build has no participation feature, the returned
\* available equals total equals the sum of the amounts of the handled
\* outputs of the connected network.
ExpectedRent(id) ==
    LET output == unspent_outputs[id].output IN
    IF id \in locked_outputs THEN 0
    ELSE IF output.kind # "Basic" \/ output.native_tokens # NoTokens
         THEN 1 + (IF output.native_tokens # NoTokens THEN 1 ELSE 0)
         ELSE 0

PlainOutput(id) ==
    LET output == unspent_outputs[id].output IN
    /\ output.kind = "Basic"
    /\ output.native_tokens = NoTokens
    /\ output.unlock_conditions.kinds = {"Address"}
    /\ id \notin locked_outputs

RentReservation ==
    LET here == { id \in OutputIds : Processed(id) } IN
    /\ total_rent_amount = SumOver([id \in here |-> ExpectedRent(id)], here)
    /\ ( /\ pc = "done"
         /\ ~participation
         /\ \A id \in DOMAIN unspent_outputs : PlainOutput(id) )
       => /\ balance.base_coin.available = balance.base_coin.total
          /\ balance.base_coin.total =
                SumOver([id \in here |-> unspent_outputs[id].output.amount], here)

RentCountedAndExemptSeen ==
    /\ pc = "done"
    /\ \E a, b \in OutputIds :
          /\ Processed(a) /\ Processed(b)
          /\ a \notin locked_outputs /\ b \notin locked_outputs
          /\ unspent_outputs[a].output.kind # "Basic"
          /\ PlainOutput(b)
          /\ total_rent_amount = ExpectedRent(a)
          /\ total_rent_amount > 0

----------------------------------------------------------------------------
\* C8, as stated: TimelockUnlockCondition::new succeeds for a slot index
\* above 0, with slot_index() returning it, and fails with
\* TimelockUnlockConditionZero for 0; no call that makes a
\* TimelockUnlockCondition yields one with slot index 0.
TimelockNeverZero ==
    timelock_call # NoCall =>
        /\ timelock_call.op = "new" =>
              IF timelock_call.arg > 0
              THEN timelock_call.ok /\ timelock_call.slot_index = timelock_call.arg
              ELSE ~timelock_call.ok
                   /\ timelock_call.error = "TimelockUnlockConditionZero"
        /\ timelock_call.ok => timelock_call.value > 0

----------------------------------------------------------------------------
\* C9: is_timelocked(slot, min_age) on a Timelock condition with lock slot L
\* is true exactly if slot + min_age < L, hence false at slot + min_age = L;
\* can_output_be_unlocked_now and can_output_be_unlocked_forever_from_now_on
\* return false for an output with a Timelock condition that has
\* slot + min_age < L.
NotMatured(call) ==
    /\ "Timelock" \in call.output.unlock_conditions.kinds
    /\ call.slot_index + call.min_committable_age
          < call.output.unlock_conditions.timelock

TimelockMaturity ==
    helper_call # NoCall =>
        IF helper_call.op = "is_timelocked"
        THEN /\ helper_call.result =
                   (helper_call.slot_index + helper_call.min_committable_age
                       < helper_call.lock_slot)
             /\ helper_call.slot_index + helper_call.min_committable_age
                   = helper_call.lock_slot => helper_call.result = FALSE
        ELSE NotMatured(helper_call) => helper_call.result = "false"

TimelockBoundarySeen ==
    /\ helper_call # NoCall
    /\ helper_call.op = "is_timelocked"
    /\ helper_call.lock_slot > 0
    /\ helper_call.min_committable_age > 0
    /\ helper_call.slot_index + helper_call.min_committable_age
          = helper_call.lock_slot
    /\ helper_call.result = FALSE

----------------------------------------------------------------------------
\* C11, as stated: in every call of balance or addresses_balance, for every
\* native token the call lists, the locked total of the token is at most its
\* claimed total, the subtraction in finish does not abort, and the returned
\* available is within 0..total.
NativeTokensNeverUnderflow ==
    /\ pc # "panic"
    /\ pc = "done" =>
          /\ \A t \in TokenIds :
                total_native_tokens[t] > 0 =>
                   locked_native_tokens[t] <= total_native_tokens[t]
          /\ \A n \in balance.native_tokens :
                /\ n.available >= 0
                /\ n.available <= n.total

====
